---- MODULE Spec2Model ----
(***************************************************************************)
(* One connection of graphqlws/internal/connection/connection.go:          *)
(* Connect starts the Sender goroutine (writeLoop) and runs the            *)
(* dispatcher (readLoop); every successful start spawns one streaming      *)
(* goroutine.  The transport (wsConnection), the client, the upstream      *)
(* service (Subscribe / Exec / result channels) and the caller's root      *)
(* context are the environment.                                            *)
(***************************************************************************)
EXTENDS Integers, Sequences, FiniteSets, TLC

\* ---- bounds of the model ------------------------------------------------
MaxMsgs == 3   \* inbound frames ReadJSON delivers before the client goes quiet
MaxOps  == 2   \* successful Subscribe calls (streaming goroutines spawned)
MaxVals == 2   \* values one upstream result stream yields before it closes
MaxIds  == 2   \* distinct non-empty operation ids the client uses
MaxEvents == 3 \* inbound frames plus upstream values, over the whole run
MaxFairEvents == 2 \* the same, in the runs checked for liveness

NoId == 0      \* the empty id ""
Ids  == 1..MaxIds
AllIds == Ids \cup {NoId}
Ops  == 1..MaxOps
Dispatcher == 0   \* goroutine tag of readLoop (the caller of Connect)
Sender == -1      \* goroutine tag of the goroutine writeLoop starts

\* ---- operationMessageType ------------------------------------------------
typeComplete            == "complete"
typeConnectionAck       == "connection_ack"
typeConnectionError     == "connection_error"
typeConnectionInit      == "connection_init"
typeConnectionTerminate == "connection_terminate"
typeData                == "data"
typeError               == "error"
typeStart               == "start"
typeStop                == "stop"
typePing                == "ping"
typeReceive             == "receive"
typePong                == "pong"
typeUnknown             == "unknown"   \* any type string outside the switch

\* An outbound operationMessage.  payload is the ordinal of the upstream
\* value for data frames and 0 otherwise; src is the goroutine that called
\* send with it (the identity of the *operationMessage pointer).
operationMessage(id, omType, payload, src) ==
    [id |-> id, type |-> omType, payload |-> payload, src |-> src]

NoFrame == [id |-> NoId, type |-> "none", payload |-> 0, src |-> Dispatcher]
NoMsg   == [type |-> "none", id |-> NoId]

VARIABLES
    rdPc,          \* readLoop: "read" | "send" | "closeWs" | "done"
    msg,           \* readLoop: the last inbound operationMessage (type, id)
    nRead,         \* number of inbound frames ReadJSON has delivered
    rdErr,         \* readLoop: the error of the last handler ("nil" if none)
    rdPending,     \* readLoop: frames of the current handler still to send
    opDone,        \* readLoop: map id -> operation whose cancel it holds (0: absent)
    wrPc,          \* Sender: "select"|"check"|"write"|"closeWs"|"closeStop"|"done"
    wrMsg,         \* Sender: the frame received from out
    wrErr,         \* Sender: SetWriteDeadline or WriteJSON returned an error
    stopClosed,    \* writeLoop: the stop channel is closed
    rootCancelled, \* ctx of Connect is done
    closeCount,    \* number of calls of ws.Close
    nOps,          \* streaming goroutines spawned so far
    opPc,          \* goroutine: "idle" | "select" | "send" | "done"
    opId,          \* goroutine: msg.ID it captured
    opCancelled,   \* goroutine: its own cancel has been called
    opFrame,       \* goroutine: the frame it is blocked in send with
    nvals,         \* values received from the upstream channel c
    chClosed,      \* the upstream channel c has been closed
    written,       \* frames WriteJSON has written, in order
    dropped,       \* goroutines whose send returned through the stop case
    quota,         \* inputs the environment delivers in this run
    idsUsed,       \* ids the client has used so far: 1..idsUsed
    writing        \* goroutines inside ws.SetWriteDeadline / ws.WriteJSON

vars == <<rdPc, msg, nRead, rdErr, rdPending, opDone, wrPc, wrMsg, wrErr, stopClosed,
          rootCancelled, closeCount, nOps, opPc, opId, opCancelled, opFrame,
          nvals, chClosed, written, dropped, writing, idsUsed, quota>>

rdVars == <<rdPc, msg, nRead, rdErr, rdPending, opDone, idsUsed>>
wrVars == <<wrPc, wrMsg, wrErr, stopClosed>>
ioVars == <<written, dropped, writing>>
opVars == <<nOps, opPc, opId, opCancelled, opFrame, nvals, chClosed>>

wsClosed == closeCount > 0

\* opCtx.Done() of operation o: a child of the connection's ctx
opCtxDone(o) == opCancelled[o] \/ rootCancelled

RECURSIVE SumTo(_, _)
SumTo(f, n) == IF n = 0 THEN 0 ELSE f[n] + SumTo(f, n - 1)

\* the inputs the environment has delivered so far
Events == nRead + SumTo(nvals, MaxOps)

\* the state Connect sets up, for a run in which the environment delivers at
\* most q inputs
InitWith(q) ==
    /\ quota = q
    /\ rdPc = "read"
    /\ msg = NoMsg
    /\ nRead = 0
    /\ rdErr = "nil"
    /\ rdPending = <<>>
    /\ opDone = [i \in AllIds |-> 0]
    /\ wrPc = "select"
    /\ wrMsg = NoFrame
    /\ wrErr = FALSE
    /\ stopClosed = FALSE
    /\ rootCancelled = FALSE
    /\ closeCount = 0
    /\ nOps = 0
    /\ opPc = [o \in Ops |-> "idle"]
    /\ opId = [o \in Ops |-> NoId]
    /\ opCancelled = [o \in Ops |-> FALSE]
    /\ opFrame = [o \in Ops |-> NoFrame]
    /\ nvals = [o \in Ops |-> 0]
    /\ chClosed = [o \in Ops |-> FALSE]
    /\ written = <<>>
    /\ dropped = {}
    /\ writing = {}
    /\ idsUsed = 0

Init == InitWith(MaxEvents)

\* ---- connection.close ------------------------------------------------------
\* conn.cancel(): the root scope, and with it every operation's scope, is done
cancel == rootCancelled' = TRUE

\* conn.ws.Close()
wsClose == closeCount' = closeCount + 1

\* ---- writeLoop: send ------------------------------------------------------
\* A send that writes to the transport itself instead of handing the frame
\* over: the caller enters the write and the Sender is bypassed.
sendOut_writesItself(p, f) ==
    /\ written' = Append(written, f)
    /\ writing' = writing \cup {p}
    /\ UNCHANGED <<wrVars, dropped>>

\* The case `out <- msg` of send's select, taken by goroutine p: the unbuffered
\* channel hands frame f to the Sender, which is in its own select.
sendOut(p, f) ==
    /\ wrPc = "select"
    /\ wrPc' = "check"
    /\ wrMsg' = f
    /\ UNCHANGED <<wrErr, stopClosed, written, dropped, writing>>

\* A send without the stop case: a plain `out <- msg`, which blocks for good
\* once the Sender has gone.
sendStop_missing(p, f) ==
    /\ FALSE
    /\ UNCHANGED <<wrVars, written, dropped, writing>>

\* A send that gives up whenever it likes: a `default:` case in place of the
\* `<-stop` case.
sendStop_default(p, f) ==
    /\ dropped' = dropped \cup {p}
    /\ UNCHANGED <<wrVars, written, writing>>

\* The case `<-stop` of send's select: send returns without handing f over.
sendStop(p, f) ==
    /\ stopClosed
    /\ dropped' = dropped \cup {p}
    /\ UNCHANGED <<wrVars, written, writing>>

\* ---- writeLoop: the Sender goroutine --------------------------------------
\* A Sender whose return tears nothing down: no deferred conn.close() and no
\* deferred close(stop).
writeLoop_return_bare ==
    /\ wrPc' = "done"
    /\ wrMsg' = NoFrame
    /\ writing' = writing \ {Sender}
    /\ UNCHANGED rootCancelled

\* return of the goroutine: the deferred conn.close() starts with cancel()
writeLoop_return ==
    /\ wrPc' = "closeWs"
    /\ wrMsg' = NoFrame
    /\ writing' = writing \ {Sender}
    /\ cancel

\* case <-ctx.Done() of the outer select
writeLoop_ctxDone ==
    /\ wrPc = "select"
    /\ rootCancelled
    /\ writeLoop_return
    /\ UNCHANGED <<rdVars, opVars, wrErr, stopClosed, closeCount, written, dropped>>
    /\ UNCHANGED quota

\* the inner select after a frame was received: ctx.Done(), or default and
\* conn.ws.SetWriteDeadline(...), which the transport lets fail or not
writeLoop_check ==
    /\ wrPc = "check"
    /\ IF rootCancelled
       THEN writeLoop_return /\ UNCHANGED wrErr
       ELSE \E ok \in BOOLEAN :
              IF ok
              THEN /\ wrPc' = "write"
                   /\ writing' = writing \cup {Sender}
                   /\ UNCHANGED <<wrMsg, wrErr, rootCancelled>>
              ELSE writeLoop_return /\ wrErr' = TRUE
    /\ UNCHANGED <<rdVars, opVars, stopClosed, closeCount, written, dropped>>
    /\ UNCHANGED quota

\* A Sender that goes on with the next frame when WriteJSON fails: `continue`
\* in place of `return`.
writeLoop_WriteJSON_continues ==
    /\ wrPc = "write"
    /\ \E ok \in BOOLEAN :
         /\ written' = IF ok /\ ~wsClosed THEN Append(written, wrMsg) ELSE written
         /\ wrPc' = "select"
         /\ wrMsg' = NoFrame
         /\ writing' = writing \ {Sender}
         /\ UNCHANGED <<wrErr, rootCancelled>>
    /\ UNCHANGED <<rdVars, opVars, stopClosed, closeCount, dropped>>
    /\ UNCHANGED quota

\* conn.ws.WriteJSON(msg): fails on a closed transport, may fail on an open one
writeLoop_WriteJSON ==
    /\ wrPc = "write"
    /\ \E ok \in BOOLEAN :
         IF ok /\ ~wsClosed
         THEN /\ written' = Append(written, wrMsg)
              /\ wrPc' = "select"
              /\ wrMsg' = NoFrame
              /\ writing' = writing \ {Sender}
              /\ UNCHANGED <<wrErr, rootCancelled>>
         ELSE /\ writeLoop_return
              /\ wrErr' = TRUE
              /\ UNCHANGED written
    /\ UNCHANGED <<rdVars, opVars, stopClosed, closeCount, dropped>>
    /\ UNCHANGED quota

\* A Sender without the deferred conn.close(): it ends and leaves the
\* transport to readLoop.
writeLoop_close_omitted ==
    /\ wrPc = "closeWs"
    /\ wrPc' = "closeStop"
    /\ UNCHANGED <<rdVars, opVars, wrMsg, wrErr, stopClosed, rootCancelled, closeCount, ioVars>>
    /\ UNCHANGED quota

\* deferred conn.close(), second statement: conn.ws.Close()
writeLoop_close ==
    /\ wrPc = "closeWs"
    /\ wsClose
    /\ wrPc' = "closeStop"
    /\ UNCHANGED <<rdVars, opVars, wrMsg, wrErr, stopClosed, rootCancelled, ioVars>>
    /\ UNCHANGED quota

\* A Sender that ends without closing stop: the `defer close(stop)` left out.
writeLoop_closeStop_omitted ==
    /\ wrPc = "closeStop"
    /\ wrPc' = "done"
    /\ UNCHANGED <<rdVars, opVars, wrMsg, wrErr, stopClosed, rootCancelled, closeCount, ioVars>>
    /\ UNCHANGED quota

\* deferred close(stop)
writeLoop_closeStop ==
    /\ wrPc = "closeStop"
    /\ stopClosed' = TRUE
    /\ wrPc' = "done"
    /\ UNCHANGED <<rdVars, opVars, wrMsg, wrErr, rootCancelled, closeCount, ioVars>>
    /\ UNCHANGED quota

\* ---- readLoop: the dispatcher ----------------------------------------------
\* The ids the client may put in its next frame.  Ids are opaque strings that
\* the code only compares for equality, so the client's fresh ids are named
\* in the order of their first use: "", an id used before, or the next one.
ClientIds == {i \in AllIds : i <= idsUsed + 1}

\* ReadJSON returns the next inbound frame: the transport is open and the
\* client still has something to say
CanRead == rdPc = "read" /\ ~wsClosed /\ nRead < MaxMsgs /\ Events < quota

\* A handler that decoded m, ended with error e and has `frames` to send, one
\* send call after the other.  msg and err are locals of one loop iteration:
\* they are back at their zero values when the iteration has nothing to send.
Dispatch(m, e, frames) ==
    /\ msg' = IF frames = <<>> THEN NoMsg ELSE m
    /\ idsUsed' = IF m.id > idsUsed THEN m.id ELSE idsUsed
    /\ nRead' = nRead + 1
    /\ rdErr' = IF frames = <<>> THEN "nil" ELSE e
    /\ rdPending' = frames
    /\ rdPc' = IF frames = <<>> THEN "read" ELSE "send"

inMsg(omType, id) == [type |-> omType, id |-> id]

\* the frames a handler passes to send, in call order
reply(id, omType) == operationMessage(id, omType, 0, Dispatcher)

\* A case typeStart that does not check the id
missingID_unchecked(id) == FALSE

\* `msg.ID == ""` of case typeStart
missingID(id) == id = NoId

\* A case typeStart that does not record the cancel function
register_omitted(table, id, o) == table

\* opDone[msg.ID] = cancel
register(table, id, o) == [table EXCEPT ![id] = o]

\* A case typeStop that cancels the operation and leaves its entry in place
delete_omitted(table, id) == table

\* delete(opDone, msg.ID)
delete(table, id) == [table EXCEPT ![id] = 0]

\* The two sends after a failed Subscribe in the wrong order
subscribeFailed_swapped(id) == <<reply(id, typeComplete), reply(id, typeError)>>

\* the sends after a failed Subscribe
subscribeFailed(id) == <<reply(id, typeError), reply(id, typeComplete)>>

\* the send that ends case typeStop
stopReply(id) == <<reply(id, typeComplete)>>

\* case typeConnectionInit: the payload decodes into initMessagePayload or not
readLoop_typeConnectionInit ==
    /\ CanRead
    /\ \E payloadOk \in BOOLEAN :
         IF payloadOk
         THEN Dispatch(inMsg(typeConnectionInit, NoId), "nil",
                       <<reply(NoId, typeConnectionAck)>>)
         ELSE Dispatch(inMsg(typeConnectionInit, NoId), "invalid payload",
                       <<reply(NoId, typeConnectionError)>>)
    /\ UNCHANGED <<opDone, wrVars, opVars, rootCancelled, closeCount, ioVars>>
    /\ UNCHANGED quota

\* go func() of case typeStart: operation o starts at the top of its loop
spawn(o, id) ==
    /\ nOps' = o
    /\ opPc' = [opPc EXCEPT ![o] = "select"]
    /\ opId' = [opId EXCEPT ![o] = id]
    /\ UNCHANGED <<opCancelled, opFrame, nvals, chClosed>>

\* case typeStart
readLoop_typeStart ==
    /\ CanRead
    /\ \E id \in ClientIds, payloadOk \in BOOLEAN, subscribeOk \in BOOLEAN :
         IF missingID(id)
         THEN /\ Dispatch(inMsg(typeStart, id), "missing ID",
                          <<reply(NoId, typeConnectionError)>>)
              /\ UNCHANGED <<opDone, opVars>>
         ELSE IF ~payloadOk
         THEN /\ Dispatch(inMsg(typeStart, id), "invalid payload",
                          <<reply(id, typeConnectionError)>>)
              /\ UNCHANGED <<opDone, opVars>>
         ELSE IF ~subscribeOk
         THEN /\ Dispatch(inMsg(typeStart, id), "subscribe", subscribeFailed(id))
              /\ UNCHANGED <<opDone, opVars>>
         ELSE /\ nOps < MaxOps
              /\ Dispatch(inMsg(typeStart, id), "nil", <<>>)
              /\ opDone' = register(opDone, id, nOps + 1)
              /\ spawn(nOps + 1, id)
    /\ UNCHANGED <<wrVars, rootCancelled, closeCount, ioVars>>
    /\ UNCHANGED quota

\* A stop that cancels every operation started under the id of o, as a table
\* of cancel functions chained per id would.
onDone_sameId(o) ==
    [p \in Ops |-> opCancelled[p] \/ (opPc[p] # "idle" /\ opId[p] = opId[o])]

\* A stop that cancels the scope of every operation, as cancelling the scope
\* the operations derive from would.
onDone_all(o) == [p \in Ops |-> TRUE]

\* onDone(): the cancel function of operation o, taken from the table
onDone(o) == [opCancelled EXCEPT ![o] = TRUE]

\* case typeStop
readLoop_typeStop ==
    /\ CanRead
    /\ \E id \in ClientIds :
         /\ IF opDone[id] # 0
            THEN /\ opDone' = delete(opDone, id)
                 /\ opCancelled' = onDone(opDone[id])
            ELSE UNCHANGED <<opDone, opCancelled>>
         /\ Dispatch(inMsg(typeStop, id), "nil", stopReply(id))
    /\ UNCHANGED <<wrVars, rootCancelled, closeCount, ioVars,
                   nOps, opPc, opId, opFrame, nvals, chClosed>>
    /\ UNCHANGED quota

\* case typePing: Exec, then json.Marshal of the response fails or not
readLoop_typePing ==
    /\ CanRead
    /\ \E id \in {NoId}, marshalOk \in BOOLEAN :
         IF marshalOk
         THEN Dispatch(inMsg(typePing, id), "nil", <<reply(NoId, typePong)>>)
         ELSE Dispatch(inMsg(typePing, id), "marshal", <<reply(id, typeError)>>)
    /\ UNCHANGED <<opDone, wrVars, opVars, rootCancelled, closeCount, ioVars>>
    /\ UNCHANGED quota

\* case typeReceive: the payload decodes or not, Exec, json.Marshal fails or not
readLoop_typeReceive ==
    /\ CanRead
    /\ \E id \in {NoId}, payloadOk \in BOOLEAN, marshalOk \in BOOLEAN :
         IF ~payloadOk
         THEN Dispatch(inMsg(typeReceive, id), "invalid payload",
                       <<reply(id, typeError)>>)
         ELSE IF ~marshalOk
         THEN Dispatch(inMsg(typeReceive, id), "marshal", <<reply(id, typeError)>>)
         ELSE Dispatch(inMsg(typeReceive, id), "nil", <<reply(NoId, typePong)>>)
    /\ UNCHANGED <<opDone, wrVars, opVars, rootCancelled, closeCount, ioVars>>
    /\ UNCHANGED quota

\* A default case that gives up the connection: the unknown type is recorded
\* and readLoop returns.
readLoop_default_returns ==
    /\ CanRead
    /\ \E id \in ClientIds :
         /\ msg' = inMsg(typeUnknown, id)
         /\ idsUsed' = IF id > idsUsed THEN id ELSE idsUsed
    /\ nRead' = nRead + 1
    /\ rdErr' = "unknown type"
    /\ rdPc' = "closeWs"
    /\ rdPending' = <<>>
    /\ cancel
    /\ UNCHANGED <<opDone, wrVars, opVars, closeCount, ioVars>>
    /\ UNCHANGED quota

\* default: of the switch
readLoop_default ==
    /\ CanRead
    /\ \E id \in ClientIds :
         Dispatch(inMsg(typeUnknown, id), "unknown type", <<reply(id, typeError)>>)
    /\ UNCHANGED <<opDone, wrVars, opVars, rootCancelled, closeCount, ioVars>>
    /\ UNCHANGED quota

\* return of readLoop: the deferred conn.close() starts with cancel()
readLoop_return ==
    /\ rdPc' = "closeWs"
    /\ rdPending' = <<>>
    /\ cancel

\* case typeConnectionTerminate
readLoop_typeConnectionTerminate ==
    /\ CanRead
    /\ msg' = inMsg(typeConnectionTerminate, NoId)
    /\ nRead' = nRead + 1
    /\ UNCHANGED <<rdErr, idsUsed>>
    /\ readLoop_return
    /\ UNCHANGED <<opDone, wrVars, opVars, closeCount, ioVars>>
    /\ UNCHANGED quota

\* ReadJSON returns an error: always on a closed transport, and whenever the
\* client disconnects or sends an undecodable frame on an open one
readLoop_readError ==
    /\ rdPc = "read"
    /\ rdErr' = "read"
    /\ readLoop_return
    /\ UNCHANGED <<msg, nRead, opDone, idsUsed, wrVars, opVars, closeCount, ioVars>>
    /\ UNCHANGED quota

\* deferred conn.close(), second statement: conn.ws.Close(); Connect returns
readLoop_close ==
    /\ rdPc = "closeWs"
    /\ wsClose
    /\ rdPc' = "done"
    /\ UNCHANGED <<msg, nRead, rdErr, rdPending, opDone, idsUsed, wrVars, opVars,
                   rootCancelled, ioVars>>
    /\ UNCHANGED quota

\* the dispatcher's position after one of its send calls returned
afterSend ==
    /\ rdPending' = Tail(rdPending)
    /\ rdPc' = IF Tail(rdPending) = <<>> THEN "read" ELSE "send"
    /\ msg' = IF Tail(rdPending) = <<>> THEN NoMsg ELSE msg
    /\ rdErr' = IF Tail(rdPending) = <<>> THEN "nil" ELSE rdErr
    /\ UNCHANGED <<nRead, opDone, idsUsed>>

\* the dispatcher's send hands its frame to the Sender
readLoop_send ==
    /\ rdPc = "send"
    /\ sendOut(Dispatcher, Head(rdPending))
    /\ afterSend
    /\ UNCHANGED <<opVars, rootCancelled, closeCount>>
    /\ UNCHANGED quota

\* the dispatcher's send returns because stop is closed
readLoop_sendStopped ==
    /\ rdPc = "send"
    /\ sendStop(Dispatcher, Head(rdPending))
    /\ afterSend
    /\ UNCHANGED <<opVars, rootCancelled, closeCount>>
    /\ UNCHANGED quota

\* ---- the streaming goroutine of case typeStart ------------------------------
frameOf(o, omType, payload) == operationMessage(opId[o], omType, payload, o)

\* return of the goroutine: the deferred cancel() of its own scope
stream_return(o) ==
    /\ opPc' = [opPc EXCEPT ![o] = "done"]
    /\ opCancelled' = [opCancelled EXCEPT ![o] = TRUE]
    /\ opFrame' = [opFrame EXCEPT ![o] = NoFrame]

\* case <-opCtx.Done()
stream_ctxDone(o) ==
    /\ opPc[o] = "select"
    /\ opCtxDone(o)
    /\ stream_return(o)
    /\ UNCHANGED <<rdVars, wrVars, rootCancelled, closeCount, ioVars,
                   nOps, opId, nvals, chClosed>>
    /\ UNCHANGED quota

\* case payload, more := <-c with more: json.Marshal fails or not, then send
stream_payload(o) ==
    /\ opPc[o] = "select"
    /\ ~chClosed[o]
    /\ nvals[o] < MaxVals
    /\ Events < quota
    /\ nvals' = [nvals EXCEPT ![o] = nvals[o] + 1]
    /\ \E marshalOk \in BOOLEAN :
         opFrame' = [opFrame EXCEPT ![o] =
                       IF marshalOk THEN frameOf(o, typeData, nvals[o] + 1)
                                    ELSE frameOf(o, typeError, 0)]
    /\ opPc' = [opPc EXCEPT ![o] = "send"]
    /\ UNCHANGED <<rdVars, wrVars, rootCancelled, closeCount, ioVars,
                   nOps, opId, opCancelled, chClosed>>
    /\ UNCHANGED quota

\* A goroutine that returns on !more without sending complete
stream_closed_silent(o) ==
    /\ opPc[o] = "select"
    /\ chClosed[o]
    /\ opPc' = [opPc EXCEPT ![o] = "done"]
    /\ opCancelled' = [opCancelled EXCEPT ![o] = TRUE]
    /\ UNCHANGED <<rdVars, wrVars, rootCancelled, closeCount, ioVars,
                   nOps, opId, opFrame, nvals, chClosed, quota>>

\* case payload, more := <-c with !more: send complete
stream_closed(o) ==
    /\ opPc[o] = "select"
    /\ chClosed[o]
    /\ opFrame' = [opFrame EXCEPT ![o] = frameOf(o, typeComplete, 0)]
    /\ opPc' = [opPc EXCEPT ![o] = "send"]
    /\ UNCHANGED <<rdVars, wrVars, rootCancelled, closeCount, ioVars,
                   nOps, opId, opCancelled, nvals, chClosed>>
    /\ UNCHANGED quota

\* the goroutine's position after its send call returned: return after the
\* complete frame, the next iteration of the loop otherwise
stream_afterSend(o) ==
    IF opFrame[o].type = typeComplete
    THEN stream_return(o)
    ELSE /\ opPc' = [opPc EXCEPT ![o] = "select"]
         /\ opFrame' = [opFrame EXCEPT ![o] = NoFrame]
         /\ UNCHANGED opCancelled

\* the goroutine's send hands its frame to the Sender
stream_send(o) ==
    /\ opPc[o] = "send"
    /\ sendOut(o, opFrame[o])
    /\ stream_afterSend(o)
    /\ UNCHANGED <<rdVars, rootCancelled, closeCount, nOps, opId, nvals, chClosed>>
    /\ UNCHANGED quota

\* the goroutine's send returns because stop is closed
stream_sendStopped(o) ==
    /\ opPc[o] = "send"
    /\ sendStop(o, opFrame[o])
    /\ stream_afterSend(o)
    /\ UNCHANGED <<rdVars, rootCancelled, closeCount, nOps, opId, nvals, chClosed>>
    /\ UNCHANGED quota

\* ---- the environment -------------------------------------------------------
\* the service closes the result channel Subscribe returned for operation o
Subscribe_closeChannel(o) ==
    /\ opPc[o] = "select"
    /\ ~chClosed[o]
    /\ chClosed' = [chClosed EXCEPT ![o] = TRUE]
    /\ UNCHANGED <<rdVars, wrVars, rootCancelled, closeCount, ioVars,
                   nOps, opPc, opId, opCancelled, opFrame, nvals>>
    /\ UNCHANGED quota

\* the caller of Connect cancels rootCtx
rootCtx_cancel ==
    /\ ~rootCancelled
    /\ cancel
    /\ UNCHANGED <<rdVars, wrVars, opVars, closeCount, ioVars>>
    /\ UNCHANGED quota

Next ==
    \/ readLoop_typeConnectionInit
    \/ readLoop_typeStart
    \/ readLoop_typeStop
    \/ readLoop_typePing
    \/ readLoop_typeReceive
    \/ readLoop_default
    \/ readLoop_typeConnectionTerminate
    \/ readLoop_readError
    \/ readLoop_close
    \/ readLoop_send
    \/ readLoop_sendStopped
    \/ writeLoop_ctxDone
    \/ writeLoop_check
    \/ writeLoop_WriteJSON
    \/ writeLoop_close
    \/ writeLoop_closeStop
    \/ \E o \in Ops : stream_ctxDone(o)
    \/ \E o \in Ops : stream_payload(o)
    \/ \E o \in Ops : stream_closed(o)
    \/ \E o \in Ops : stream_send(o)
    \/ \E o \in Ops : stream_sendStopped(o)
    \/ \E o \in Ops : Subscribe_closeChannel(o)
    \/ rootCtx_cancel

Spec == Init /\ [][Next]_vars

\* The scheduler runs every goroutine that can take a step; a write returns
\* within the write deadline; a closed channel or a done context is received
\* from.  Nothing is assumed of the client, the service or the caller.
Fairness ==
    /\ WF_vars(writeLoop_ctxDone)
    /\ WF_vars(writeLoop_check)
    /\ WF_vars(writeLoop_WriteJSON)
    /\ WF_vars(writeLoop_close)
    /\ WF_vars(writeLoop_closeStop)
    /\ WF_vars(readLoop_send)
    /\ WF_vars(readLoop_sendStopped)
    /\ WF_vars(readLoop_close)
    /\ WF_vars(readLoop_readError /\ wsClosed)
    /\ \A o \in Ops : /\ WF_vars(stream_ctxDone(o))
                      /\ WF_vars(stream_closed(o))
                      /\ WF_vars(stream_send(o))
                      /\ WF_vars(stream_sendStopped(o))

\* the runs in which the environment delivers at most MaxFairEvents inputs
FairInit == InitWith(MaxFairEvents)

FairSpec == FairInit /\ [][Next]_vars /\ Fairness

\* ---- frames on the transport -------------------------------------------------
Written == {written[k] : k \in 1..Len(written)}

\* the positions of `written` that hold a frame of type t with id i
Positions(i, t) == {k \in 1..Len(written) : written[k].id = i /\ written[k].type = t}

\* operations started with id i (successful Subscribe)
Started(i) == {o \in Ops : opPc[o] # "idle" /\ opId[o] = i}

\* ---- C1 ----------------------------------------------------------------------
\* C1: the transport's Close is invoked exactly once over the whole run: never
\* twice, and not zero times once both loops of the connection have ended.
C1_CloseExactlyOnce ==
    /\ closeCount <= 1
    /\ (rdPc = "done" /\ wrPc = "done") => closeCount = 1

\* ---- C2 ----------------------------------------------------------------------
\* C2: for an id that exactly one start used, with a successful Subscribe, and
\* to which the dispatcher replied at most once (one stop, no failed start), at
\* most one complete frame with that id is ever written: the terminal frame of
\* the operation is never written twice.
C2_OneTerminalFrame ==
    \A i \in Ids :
        ( /\ Cardinality(Started(i)) = 1
          /\ Cardinality({k \in 1..Len(written) :
                 written[k].id = i /\ written[k].src = Dispatcher}) <= 1 )
        => Cardinality(Positions(i, typeComplete)) <= 1

\* ---- C3 ----------------------------------------------------------------------
\* C3: for an id that exactly one start used, no data frame with that id is
\* written after the complete frame the dispatcher sent in reply to a stop
\* for that id.
C3_NoDataAfterStopComplete ==
    \A i \in Ids :
        Cardinality(Started(i)) = 1 =>
            \A k \in Positions(i, typeComplete), d \in Positions(i, typeData) :
                written[k].src = Dispatcher => d < k

\* ---- C4 ----------------------------------------------------------------------
\* C4: at most one goroutine is inside a transport write, and it is the Sender;
\* a frame reaches the transport only as the frame the Sender received from
\* the channel.
C4_SingleWriter ==
    /\ [](writing \subseteq {Sender})
    /\ [][written' # written =>
            /\ wrPc = "write"
            /\ Sender \in writing
            /\ written' = Append(written, wrMsg)]_vars

\* The Sender is inside WriteJSON while the dispatcher and a streaming
\* goroutine are both blocked in send.
C4_Witness ==
    /\ wrPc = "write"
    /\ Sender \in writing
    /\ rdPc = "send"
    /\ \E o \in Ops : opPc[o] = "send"

\* ---- C5 ----------------------------------------------------------------------
\* C5: once the root scope is cancelled, every streaming goroutine that is
\* running (waiting in its select or blocked in send, tracked in the table or
\* not) eventually returns.
C5_StreamsTerminate ==
    \A o \in Ops :
        (rootCancelled /\ opPc[o] \in {"select", "send"}) ~> (opPc[o] = "done")

\* After the root scope was cancelled a goroutine that was blocked in send has
\* been released through the stop channel and has returned, and so has a
\* goroutine whose table entry a later start with the same id had overwritten.
C5_Witness ==
    /\ rootCancelled
    /\ \E o \in Ops : opPc[o] = "done" /\ o \in dropped
    /\ \E o \in Ops : /\ opPc[o] = "done"
                      /\ \E p \in Ops : p > o /\ opId[p] = opId[o]

\* ---- C6 ----------------------------------------------------------------------
\* C6: when the upstream stream of a running operation is closed, a complete
\* frame issued by that operation's goroutine is eventually written, unless a
\* stop cancels the operation while it is running or the root scope is
\* cancelled.
C6_CompleteWritten(o) ==
    \E f \in Written : f.src = o /\ f.type = typeComplete

C6_EventuallyComplete ==
    \A o \in Ops :
        (chClosed[o] /\ opPc[o] \in {"select", "send"})
            ~> \/ C6_CompleteWritten(o)
               \/ rootCancelled
               \/ (opCancelled[o] /\ opPc[o] # "done")

\* The stream closed after a value, nothing was stopped or torn down, and the
\* goroutine's complete frame is on the transport after its data frame.
C6_Witness ==
    \E o \in Ops :
        /\ chClosed[o]
        /\ nvals[o] > 0
        /\ C6_CompleteWritten(o)
        /\ ~rootCancelled
        /\ opDone[opId[o]] = o

\* ---- handler steps ------------------------------------------------------------
\* the step in which readLoop decodes an inbound frame of type t and runs its
\* case up to the first send
Handles(t) == rdPc = "read" /\ msg'.type = t

\* the connection is left open by a step: the root scope and the transport
\* are as before, and the dispatcher goes on with its send
StaysOpen ==
    /\ rootCancelled' = rootCancelled
    /\ closeCount' = closeCount
    /\ rdPc' = "send"

\* ---- C7 ----------------------------------------------------------------------
\* C7: every stop is answered with exactly one complete keyed to its id and
\* leaves that id untracked and the connection open; a stop for an untracked
\* id (such as the second of two stops) changes neither the table nor any
\* operation's cancellation, and no error is sent.
C7_StopIdempotent ==
    [][Handles(typeStop) =>
         /\ rdPending' = <<reply(msg'.id, typeComplete)>>
         /\ rdErr' = "nil"
         /\ opDone'[msg'.id] = 0
         /\ \A i \in AllIds \ {msg'.id} : opDone'[i] = opDone[i]
         /\ StaysOpen
         /\ (opDone[msg'.id] = 0 => UNCHANGED <<opDone, opCancelled>>)
         /\ UNCHANGED <<nOps, opPc, opId, opFrame>>]_vars

\* A second stop for an id: the operation was started and already stopped,
\* the first stop's complete is on the transport, and the dispatcher is
\* sending complete again.
C7_Witness ==
    /\ msg.type = typeStop
    /\ rdPc = "send"
    /\ rdPending = <<reply(msg.id, typeComplete)>>
    /\ opDone[msg.id] = 0
    /\ \E o \in Ops : opId[o] = msg.id /\ opCancelled[o]
    /\ \E f \in Written :
           f.src = Dispatcher /\ f.type = typeComplete /\ f.id = msg.id
    /\ ~rootCancelled

\* ---- C8 ----------------------------------------------------------------------
\* C8: a start with an empty id sends exactly one connection_error, reaches
\* neither Subscribe nor the table, spawns no goroutine and leaves the
\* connection open: when its send returns the dispatcher reads again.
C8_StartMissingID ==
    /\ [][(Handles(typeStart) /\ msg'.id = NoId) =>
            /\ rdPending' = <<reply(NoId, typeConnectionError)>>
            /\ rdErr' = "missing ID"
            /\ StaysOpen
            /\ UNCHANGED <<opDone, opVars>>]_vars
    /\ [][(msg.type = typeStart /\ msg.id = NoId /\ rdPc = "send"
              /\ rdPending' # rdPending) =>
            /\ rdPc' = "read"
            /\ rdPending' = <<>>
            /\ UNCHANGED <<opDone, opVars, rootCancelled, closeCount>>]_vars

\* The dispatcher is sending the connection_error of a start without id while
\* an operation is tracked and running.
C8_Witness ==
    /\ msg = inMsg(typeStart, NoId)
    /\ rdPc = "send"
    /\ rdPending = <<reply(NoId, typeConnectionError)>>
    /\ \E o \in Ops : opPc[o] \in {"select", "send"} /\ opDone[opId[o]] = o
    /\ ~rootCancelled

\* ---- C9 ----------------------------------------------------------------------
\* C9: when Subscribe fails the dispatcher sends error and then complete for
\* the id of the start, the table and every operation are as before, no
\* goroutine is spawned and the connection stays open.
C9_SubscribeError ==
    [][(Handles(typeStart) /\ rdErr' = "subscribe") =>
         /\ rdPending' = <<reply(msg'.id, typeError), reply(msg'.id, typeComplete)>>
         /\ msg'.id # NoId
         /\ StaysOpen
         /\ UNCHANGED <<opDone, opVars>>]_vars

\* Subscribe failed for a start while another operation is tracked and
\* running; the error has been handed over and complete is being sent.
C9_Witness ==
    /\ msg.type = typeStart
    /\ rdErr = "subscribe"
    /\ rdPc = "send"
    /\ rdPending = <<reply(msg.id, typeComplete)>>
    /\ \E o \in Ops : opPc[o] \in {"select", "send"} /\ opDone[opId[o]] = o
    /\ ~rootCancelled

\* ---- C10 ---------------------------------------------------------------------
\* C10: connection_ack is written before any frame of a started operation:
\* no frame issued by a streaming goroutine precedes a connection_ack on the
\* transport, whatever order connection_init and start arrive in.
C10_AckBeforeOperationFrames ==
    \A k \in 1..Len(written) :
        written[k].type = typeConnectionAck =>
            \A j \in 1..(k - 1) : written[j].src = Dispatcher

\* ---- C11 ---------------------------------------------------------------------
\* the Sender's next step is the call of WriteJSON
CallsWriteJSON == wrPc = "write" /\ wrPc' # "write"

\* C11: the Sender never calls WriteJSON after Close has been invoked on the
\* transport, even for a frame it took from the channel before the teardown
\* started.
C11_NoWriteAfterClose == [][CallsWriteJSON => ~wsClosed]_vars

\* ---- C12 ---------------------------------------------------------------------
\* the dispatcher is inside a call of send with n frames still to hand over
DispatcherInSend(n) == rdPc = "send" /\ Len(rdPending) = n

\* C12: every call of send eventually returns: the dispatcher leaves each of
\* its calls of send and so does every streaming goroutine, whether the frame
\* was handed to the Sender or the Sender has gone and stop is closed.
C12_SendReturns ==
    /\ \A n \in 1..2 : DispatcherInSend(n) ~> ~DispatcherInSend(n)
    /\ \A o \in Ops : (opPc[o] = "send") ~> (opPc[o] # "send")

\* The Sender has gone without taking a frame, and both the dispatcher's send
\* and a streaming goroutine's send, which were waiting, returned through stop.
C12_Witness ==
    /\ wrPc = "done"
    /\ written = <<>>
    /\ Dispatcher \in dropped
    /\ \E o \in Ops : o \in dropped
    /\ rdPc # "send"
    /\ \A o \in Ops : opPc[o] # "send"

\* ---- C13 ---------------------------------------------------------------------
\* C13: a stop for an id cancels the scope of the operation tracked under that
\* id and of no other, and removes no other id's table entry: every other
\* operation's scope, goroutine and pending frame are as before and the root
\* scope is untouched; and once the root scope is cancelled the scope of
\* every operation is done.
C13_StopCancelsOnlyItsOperation ==
    /\ [][Handles(typeStop) =>
            LET o == opDone[msg'.id] IN
            /\ (o # 0 => opCancelled'[o])
            /\ \A p \in Ops \ {o} : /\ opCancelled'[p] = opCancelled[p]
                                    /\ opPc'[p] = opPc[p]
                                    /\ opFrame'[p] = opFrame[p]
            /\ \A i \in AllIds \ {msg'.id} : opDone'[i] = opDone[i]
            /\ rootCancelled' = rootCancelled]_vars
    /\ [](rootCancelled => \A o \in Ops : opCtxDone(o))

\* A stop for one of two tracked operations has been handled: its operation
\* is cancelled and untracked, the other is still tracked, not cancelled and
\* streaming.
C13_Witness ==
    /\ msg.type = typeStop
    /\ rdPc = "send"
    /\ opDone[msg.id] = 0
    /\ \E o, p \in Ops :
           /\ o # p
           /\ opId[o] = msg.id /\ opCancelled[o]
           /\ opId[p] # msg.id /\ opDone[opId[p]] = p
           /\ ~opCancelled[p] /\ opPc[p] \in {"select", "send"}
    /\ ~rootCancelled

\* ---- C14 ---------------------------------------------------------------------
\* operation o runs but its table entry was overwritten by a later start with
\* the same id (a stop would have cancelled it, its own return too)
Shadowed(o) ==
    /\ opPc[o] \in {"select", "send"}
    /\ ~opCancelled[o]
    /\ opDone[opId[o]] # o

\* the step is a start that spawns a goroutine under an id already tracked
SecondStart ==
    /\ rdPc = "read"
    /\ nOps' = nOps + 1
    /\ opDone[opId'[nOps']] # 0

\* C14: a start with an already tracked id whose Subscribe succeeds puts the
\* new operation in the table and cancels nothing: the first operation's
\* goroutine and frame are as before.  From then on no stop cancels the first
\* operation and it is never tracked again: it returns only after sending
\* complete for its closed upstream channel or after the root scope was
\* cancelled.
C14_SecondStartShadowsFirst ==
    /\ [][SecondStart =>
            LET id == opId'[nOps']
                first == opDone[id]
            IN  /\ opDone'[id] = nOps'
                /\ opCancelled' = opCancelled
                /\ opPc'[first] = opPc[first]
                /\ opFrame'[first] = opFrame[first]
                /\ rootCancelled' = rootCancelled]_vars
    /\ [][\A o \in Ops : Shadowed(o) =>
            /\ opDone'[opId[o]] # o
            /\ (opCancelled'[o] \/ opPc'[o] = "done") =>
                  /\ opPc'[o] = "done"
                  /\ rootCancelled \/ opFrame[o].type = typeComplete]_vars

\* Two operations were started under one id, a stop for the id cancelled the
\* second and its complete is on the transport, and the first operation has
\* had a frame written after that.
C14_Witness ==
    \E o, p \in Ops :
        /\ o < p
        /\ opPc[p] # "idle"
        /\ opId[o] = opId[p]
        /\ opCancelled[p]
        /\ opDone[opId[o]] = 0
        /\ \E k, j \in 1..Len(written) :
               /\ k < j
               /\ written[k] = reply(opId[o], typeComplete)
               /\ written[j].src = o
        /\ ~rootCancelled

\* ---- C15 ---------------------------------------------------------------------
\* every goroutine of the connection has ended and the transport is closed
AllTerminated ==
    /\ wsClosed
    /\ wrPc = "done"
    /\ stopClosed
    /\ rdPc = "done"
    /\ \A o \in Ops : opPc[o] \in {"idle", "done"}

\* C15: a failed SetWriteDeadline or WriteJSON is fatal: from then on the root
\* scope is cancelled and the Sender is on its way out, no frame is written or
\* handed over any more, and eventually the transport is closed, stop is
\* closed and the Sender, the dispatcher and every streaming goroutine have
\* ended.
C15_WriteFailureFatal ==
    /\ [](wrErr => rootCancelled /\ wrPc \in {"closeWs", "closeStop", "done"})
    /\ [][wrErr => written' = written /\ wrMsg' = wrMsg]_vars
    /\ wrErr ~> AllTerminated

\* After a write failure everything has ended, and a streaming goroutine's
\* later send returned without handing its frame over.
C15_Witness ==
    /\ wrErr
    /\ AllTerminated
    /\ \E o \in Ops : opPc[o] = "done" /\ o \in dropped

\* ---- C16 ---------------------------------------------------------------------
\* the frames issued by the goroutine of operation o, as written
FramesOf(o) == SelectSeq(written, LAMBDA f : f.src = o)

\* C16: the frames a streaming goroutine issues are written in the order it
\* issued them: data frames in the order of the upstream values and nothing
\* after complete; and when its complete is written on a connection whose
\* root scope is live, every upstream value has its frame before it: the k-th
\* frame is the data frame of the k-th value (or the error frame of a failed
\* encoding), and complete is last.
C16_FramesInIssueOrder ==
    \A o \in Ops :
        LET s == FramesOf(o) IN
        /\ \A k \in 1..Len(s) : s[k].type = typeComplete => k = Len(s)
        /\ \A j, k \in 1..Len(s) :
               (j < k /\ s[j].type = typeData /\ s[k].type = typeData)
                   => s[j].payload < s[k].payload
        /\ (s # <<>> /\ s[Len(s)].type = typeComplete /\ ~rootCancelled) =>
               /\ Len(s) = nvals[o] + 1
               /\ \A k \in 1..nvals[o] :
                      s[k] \in {frameOf(o, typeData, k), frameOf(o, typeError, 0)}

\* The upstream of an operation yielded two values and closed, no stop came
\* and the connection is live: data, data, complete are on the transport.
C16_Witness ==
    \E o \in Ops :
        /\ FramesOf(o) = <<frameOf(o, typeData, 1), frameOf(o, typeData, 2),
                           frameOf(o, typeComplete, 0)>>
        /\ opDone[opId[o]] = o
        /\ ~rootCancelled

\* ---- C17 ---------------------------------------------------------------------
\* the step handles an inbound message that a handler rejects: its payload
\* does not decode, its id is missing, Subscribe or the encoding of the
\* response fails, or its type is unknown
Rejects == rdPc = "read" /\ rdErr' \notin {"nil", "read"}

\* the step handles a stop for an id that is not tracked
StopUntracked == Handles(typeStop) /\ opDone[msg'.id] = 0

\* the first frame the handler sends is a typed error or connection_error
ErrorReply == Head(rdPending').type \in {typeError, typeConnectionError}

\* C17 as stated: every rejected message and every stop for an unknown id
\* leaves the connection open and is answered with a typed error or
\* connection_error.
C17_EveryRejectGetsError ==
    [][(Rejects \/ StopUntracked) => (StaysOpen /\ ErrorReply)]_vars

\* C17, amended: the dispatcher starts its return only from a read, on
\* connection_terminate or on a read error; a rejected message leaves the
\* root scope and the transport alone and is answered with a typed error or
\* connection_error, a stop for an unknown id likewise leaves them alone and
\* is answered with complete; and when the dispatcher's sends have returned
\* it reads the next message.
C17_OnlyTerminalEventsClose ==
    /\ [][(rdPc # "closeWs" /\ rdPc' = "closeWs") =>
            /\ rdPc = "read"
            /\ msg'.type = typeConnectionTerminate \/ rdErr' = "read"]_vars
    /\ [][Rejects => (StaysOpen /\ ErrorReply)]_vars
    /\ [][StopUntracked =>
            (StaysOpen /\ rdPending' = <<reply(msg'.id, typeComplete)>>)]_vars
    /\ [][rdPc = "send" => rdPc' \in {"send", "read"}]_vars

\* An error reply to one rejected message is on the transport, the connection
\* is open, and the dispatcher is replying to the next rejected message.
C17_Witness ==
    /\ rdPc = "send"
    /\ rdErr # "nil"
    /\ nRead >= 2
    /\ \E f \in Written :
           f.src = Dispatcher /\ f.type \in {typeError, typeConnectionError}
    /\ ~rootCancelled
    /\ closeCount = 0

\* ---- C18 ---------------------------------------------------------------------
\* Connect has returned: readLoop and its deferred conn.close() have ended
ConnectReturned == rdPc = "done"

\* C18: Connect returns only with the root scope cancelled and Close invoked
\* on the transport, that is never while the connection is open; and once the
\* root scope is cancelled the transport is eventually closed and Connect
\* eventually returns.
C18_ConnectBlocksUntilClosed ==
    /\ [](ConnectReturned => rootCancelled /\ wsClosed)
    /\ rootCancelled ~> (wsClosed /\ ConnectReturned)

\* Connect has returned after a failed read, with the Sender gone as well and
\* no write failure or connection_terminate behind the teardown.
C18_Witness ==
    /\ ConnectReturned
    /\ rdErr = "read"
    /\ msg.type # typeConnectionTerminate
    /\ wrPc = "done"
    /\ ~wrErr
    /\ wsClosed

\* ---- C19 ---------------------------------------------------------------------
\* the frame that ends operation o by itself is on the transport
CompletedNaturally(o) ==
    /\ opPc[o] = "done"
    /\ frameOf(o, typeComplete, 0) \in Written

\* C19: the table changes only in a step of the dispatcher's read: a start
\* whose Subscribe succeeds puts the new operation under its id, a stop for a
\* tracked id removes that id, and every other step, a goroutine's return after
\* complete or after cancellation included, leaves the table as it is.
C19_TableOnlyByDispatcher ==
    /\ [][opDone' # opDone =>
            /\ rdPc = "read"
            /\ \/ /\ nOps' = nOps + 1
                  /\ opDone' = [opDone EXCEPT ![opId'[nOps']] = nOps']
               \/ /\ Handles(typeStop)
                  /\ opDone[msg'.id] # 0
                  /\ opDone' = [opDone EXCEPT ![msg'.id] = 0]]_vars
    /\ [][nOps' = nOps + 1 => opDone'[opId'[nOps']] = nOps']_vars
    /\ [][\A o \in Ops : (opPc[o] # "done" /\ opPc'[o] = "done") =>
            opDone' = opDone]_vars

\* An operation ended by itself, its complete is on the transport, and its id
\* is still tracked on the live connection.
C19_Witness ==
    \E o \in Ops :
        /\ CompletedNaturally(o)
        /\ opDone[opId[o]] = o
        /\ ~rootCancelled

\* ---- C20 ---------------------------------------------------------------------
\* the Sender gives up the frame it holds at its post-receive check of
\* ctx.Done(), without a write having failed
CheckDiscards == wrPc = "check" /\ wrPc' = "closeWs" /\ ~wrErr'

\* C20: stop is closed only with the root scope cancelled and the transport
\* closed; a send returns without handing its frame over only when the root
\* scope is already cancelled, and so does the Sender's post-receive check
\* give up a frame only when the root scope is already cancelled.
C20_NoDropWhileLive ==
    /\ [](stopClosed => rootCancelled /\ wsClosed)
    /\ [][dropped' # dropped => rootCancelled /\ stopClosed]_vars
    /\ [][CheckDiscards => rootCancelled]_vars

\* After the teardown the dispatcher's send returned through the closed stop
\* channel, its frame not handed over.
C20_Witness ==
    /\ Dispatcher \in dropped
    /\ stopClosed
    /\ rootCancelled

====
